---- MODULE Spec2Model ----
(***************************************************************************)
(* product_fem: Dirichlet conditions on a product domain.                  *)
(*                                                                         *)
(* The model follows src/product_fem/boundary_conditions.py and            *)
(* src/product_fem/solvers.py.  Python objects live in a heap (a sequence  *)
(* of records, an object's identity is its index), so that an edit made in *)
(* place and an edit made on a copy are different things.  Indices are     *)
(* 1-based here and 0-based in the source.  Matrix and vector entries are  *)
(* float64 in the program and integers here; coordinates are integers in   *)
(* units of the tolerance's last digit.                                    *)
(***************************************************************************)
EXTENDS Integers, Sequences, FiniteSets, TLC

\* ---------------------------------------------------------------- bounds
\* Largest dimension N of the system matrix (A is N x N, b has N entries).
MaxN == 3
\* Largest length of the dof-coordinate table.
MaxT == 3
\* Largest number of base-domain boundary dofs in a predicate query.
MaxBdy == 2
\* Largest coordinate component in a predicate query.
MaxCoord == 4

\* ------------------------------------------------------------- constants
\* fenics.near's default eps (DOLFIN_EPS = 3e-16), in units of 1e-16.
DOLFIN_EPS == 3
\* near2d's default tol (3e-10), in units of 1e-10.
NEAR2D_TOL == 3

\* ------------------------------------------------------- small utilities
Range(s) == {s[i] : i \in 1..Len(s)}

RECURSIVE Concat(_)
Concat(ss) == IF ss = <<>> THEN <<>> ELSE Head(ss) \o Concat(Tail(ss))

\* ------------------------------------------------- numpy / scipy objects
\* np.eye(n): the dense identity, a sequence of rows.
np_eye(n) == [i \in 1..n |-> [j \in 1..n |-> IF i = j THEN 1 ELSE 0]]

\* One row of a list-of-lists matrix: sorted column indices and their data.
\* scipy's lil_insert: bisect for the column, delete the entry when x = 0,
\* otherwise replace it or insert it in place.
bisect_left(cols, j) == Cardinality({p \in 1..Len(cols) : cols[p] < j})

\* Mutant of lil_insert: a zero is skipped instead of deleting the stored
\* entry, so a row assignment leaves the old off-diagonal entries behind.
lil_insert_keep(row, j, x) ==
    LET pos   == bisect_left(row.cols, j)
        found == pos < Len(row.cols) /\ row.cols[pos + 1] = j
    IN  IF x = 0 THEN row
        ELSE IF found
          THEN [row EXCEPT !.vals[pos + 1] = x]
          ELSE [cols |-> SubSeq(row.cols, 1, pos) \o <<j>> \o SubSeq(row.cols, pos + 1, Len(row.cols)),
                vals |-> SubSeq(row.vals, 1, pos) \o <<x>> \o SubSeq(row.vals, pos + 1, Len(row.vals))]

lil_insert(row, j, x) ==
    LET pos   == bisect_left(row.cols, j)
        found == pos < Len(row.cols) /\ row.cols[pos + 1] = j
    IN  IF x = 0
          THEN IF found
                 THEN [cols |-> SubSeq(row.cols, 1, pos) \o SubSeq(row.cols, pos + 2, Len(row.cols)),
                       vals |-> SubSeq(row.vals, 1, pos) \o SubSeq(row.vals, pos + 2, Len(row.vals))]
                 ELSE row
          ELSE IF found
                 THEN [row EXCEPT !.vals[pos + 1] = x]
                 ELSE [cols |-> SubSeq(row.cols, 1, pos) \o <<j>> \o SubSeq(row.cols, pos + 1, Len(row.cols)),
                       vals |-> SubSeq(row.vals, 1, pos) \o <<x>> \o SubSeq(row.vals, pos + 1, Len(row.vals))]

\* Setting columns j..n of one lil row from the dense row x, left to right.
RECURSIVE lil_set_cols(_, _, _)
lil_set_cols(row, x, j) ==
    IF j > Len(x) THEN row ELSE lil_set_cols(lil_insert(row, j, x[j]), x, j + 1)

\* A lil row built from a dense row (the constructor drops the zeros).
lil_row(x) == lil_set_cols([cols |-> <<>>, vals |-> <<>>], x, 1)

\* sps.eye(n, format='lil')
sps_eye_lil(n) ==
    [fmt |-> "lil", n |-> n, rows |-> [i \in 1..n |-> lil_row(np_eye(n)[i])]]

\* scipy.sparse.csr_matrix(M) of a dense M: canonical, no stored zeros.
csr_matrix(M) ==
    LET n  == Len(M)
        rs == [i \in 1..n |-> lil_row(M[i])]
    IN  [fmt     |-> "csr", n |-> n,
         indptr  |-> [i \in 1..(n + 1) |->
                        Len(Concat([r \in 1..(i - 1) |-> rs[r].cols]))],
         indices |-> Concat([i \in 1..n |-> rs[i].cols]),
         data    |-> Concat([i \in 1..n |-> rs[i].vals])]

lil_matrix(M) ==
    [fmt |-> "lil", n |-> Len(M), rows |-> [i \in 1..Len(M) |-> lil_row(M[i])]]

\* csr.tolil(): row i of the lil is the slice indptr[i]..indptr[i+1] of
\* indices and data.
csr_tolil(m) ==
    [fmt  |-> "lil", n |-> m.n,
     rows |-> [i \in 1..m.n |->
                 [cols |-> SubSeq(m.indices, m.indptr[i] + 1, m.indptr[i + 1]),
                  vals |-> SubSeq(m.data, m.indptr[i] + 1, m.indptr[i + 1])]]]

\* lil.tocsr(): row lengths accumulate to indptr, rows are concatenated.
lil_tocsr(m) ==
    [fmt     |-> "csr", n |-> m.n,
     indptr  |-> [i \in 1..(m.n + 1) |->
                    Len(Concat([r \in 1..(i - 1) |-> m.rows[r].cols]))],
     indices |-> Concat([i \in 1..m.n |-> m.rows[i].cols]),
     data    |-> Concat([i \in 1..m.n |-> m.rows[i].vals])]

\* The entries of a lil row as a dense row of length n.
row_toarray(row, n) ==
    [j \in 1..n |-> IF j \in Range(row.cols)
                      THEN row.vals[CHOOSE p \in 1..Len(row.cols) : row.cols[p] = j]
                      ELSE 0]

\* The logical entries of a matrix object, as numpy would print them.
toarray(m) ==
    CASE m.fmt = "csr" -> [i \in 1..m.n |-> row_toarray(csr_tolil(m).rows[i], m.n)]
      [] m.fmt = "lil" -> [i \in 1..m.n |-> row_toarray(m.rows[i], m.n)]
      [] OTHER         -> m.arr

\* sps.issparse(A), isinstance(A, np.ndarray), isinstance(A, PETSc.Mat)
issparse(m)  == m.fmt \in {"csr", "lil"}
is_ndarray(m) == m.fmt = "ndarray"
is_petsc(m)  == m.fmt = "petsc"

\* ------------------------------------------------------ default predicate
\* fenics.near(x, x0): x0 - eps <= x <= x0 + eps, on scalars.
near(x, x0) == x0 - DOLFIN_EPS <= x /\ x <= x0 + DOLFIN_EPS

\* near2d(x, y, tol): np.linalg.norm(x - y) < tol, on 2-component points.
near2d(x, y) ==
    (x[1] - y[1]) * (x[1] - y[1]) + (x[2] - y[2]) * (x[2] - y[2])
        < NEAR2D_TOL * NEAR2D_TOL

\* The loop of default_product_boundary_1d over marginal_bc_dofs.  on_bdy is
\* the local of that name: "unbound" until the first iteration assigns it.
\* The loop leaves at the first dof where on_bdy is true.
RECURSIVE loop_1d(_, _, _, _, _)
loop_1d(W, x, y, k, on_bdy) ==
    IF k > Len(W.marginal_bdy_dofs) THEN on_bdy
    ELSE LET i_bdy == W.marginal_bdy_dofs[k]
             x_bdy == near(x, W.marginal_dof_coords[i_bdy])
             y_bdy == near(y, W.marginal_dof_coords[i_bdy])
         IN  IF x_bdy \/ y_bdy THEN "True"
             ELSE loop_1d(W, x, y, k + 1, "False")

RECURSIVE loop_2d(_, _, _, _, _)
loop_2d(W, x, y, k, on_bdy) ==
    IF k > Len(W.marginal_bdy_dofs) THEN on_bdy
    ELSE LET bdy_point == W.marginal_dof_coords[W.marginal_bdy_dofs[k]]
             x_bdy == near2d(x, bdy_point)
             y_bdy == near2d(y, bdy_point)
         IN  IF x_bdy \/ y_bdy THEN "True"
             ELSE loop_2d(W, x, y, k + 1, "False")

\* `return on_bdy`: reading the local while it is unbound raises
\* UnboundLocalError.
return_local(on_bdy) == IF on_bdy = "unbound" THEN "UnboundLocalError" ELSE on_bdy

default_product_boundary_1d(W, x, y) == return_local(loop_1d(W, x, y, 1, "unbound"))

default_product_boundary_2d(W, x, y) == return_local(loop_2d(W, x, y, 1, "unbound"))

\* The answer is "True", "False", "None" (no branch taken: the function ends
\* without a return) or "UnboundLocalError" (raised).
default_product_boundary(W, x, y) ==
    IF W.geo_dim = 1 THEN default_product_boundary_1d(W, x, y)
    ELSE IF W.geo_dim = 2 THEN default_product_boundary_2d(W, x, y)
    ELSE "None"

\* ------------------------------------------------------ ProductDirichletBC
\* A callable (x, y) -> scalar: a constant, a function of the pair, or a
\* function that raises at one pair.  The result is [exc, val].
call_u_bdy(f, xy) ==
    CASE f.kind = "const" -> [exc |-> "", val |-> f.c]
      [] f.kind = "raises" /\ f.at = xy -> [exc |-> "UserError", val |-> 0]
      [] OTHER -> [exc |-> "", val |-> 100 + 10 * xy[1] + xy[2]]

\* __init__: 'on_boundary' and 'default' become the default predicate, a
\* number becomes the constant callable.  The argument on_product_boundary
\* is [name, truth]: a string, or a callable given by the set of pairs
\* where it answers True.
ProductDirichletBC(W, u_bdy, on_product_boundary) ==
    [product_function_space |-> W,
     boundary_values |-> IF u_bdy.kind = "number"
                           THEN [kind |-> "const", c |-> u_bdy.c, at |-> <<>>]
                           ELSE u_bdy,
     on_boundary |-> IF on_product_boundary.name \in {"on_boundary", "default"}
                       THEN [kind |-> "default", truth |-> {}]
                       ELSE [kind |-> "user", truth |-> on_product_boundary.truth]]

\* self.on_boundary(*xy)
on_boundary(self, xy) ==
    IF self.on_boundary.kind = "default"
      THEN default_product_boundary(self.product_function_space, xy[1], xy[2])
      ELSE IF xy \in self.on_boundary.truth THEN "True" ELSE "False"

\* get_product_boundary_dofs: the table indices, in table order, where the
\* predicate is truthy; an exception of the predicate propagates.
RECURSIVE boundary_dofs_from(_, _, _)
boundary_dofs_from(self, ij, product_bdy_dofs) ==
    LET dof_coords == self.product_function_space.dof_coords
    IN  IF ij > Len(dof_coords) THEN [exc |-> "", val |-> product_bdy_dofs]
        ELSE LET r == on_boundary(self, dof_coords[ij])
             IN  IF r = "UnboundLocalError" THEN [exc |-> r, val |-> <<>>]
                 ELSE boundary_dofs_from(self, ij + 1,
                        IF r = "True" THEN Append(product_bdy_dofs, ij)
                                      ELSE product_bdy_dofs)

get_product_boundary_dofs(self) == boundary_dofs_from(self, 1, <<>>)

\* Mutant of get_product_boundary_coords: the coordinates come out in the
\* reverse of the order of the indices, so values and dofs are misaligned.
get_product_boundary_coords_reversed(self) ==
    LET prod_bdy_dofs == get_product_boundary_dofs(self)
        dof_coords    == self.product_function_space.dof_coords
        m             == Len(prod_bdy_dofs.val)
    IN  IF prod_bdy_dofs.exc # "" THEN prod_bdy_dofs
        ELSE [exc |-> "",
              val |-> [k \in 1..m |-> dof_coords[prod_bdy_dofs.val[m + 1 - k]]]]

get_product_boundary_coords(self) ==
    LET prod_bdy_dofs == get_product_boundary_dofs(self)
        dof_coords    == self.product_function_space.dof_coords
    IN  IF prod_bdy_dofs.exc # "" THEN prod_bdy_dofs
        ELSE [exc |-> "",
              val |-> [k \in 1..Len(prod_bdy_dofs.val) |-> dof_coords[prod_bdy_dofs.val[k]]]]

\* bvs = [self.boundary_values(*xy) for xy in prod_bdy_coords]: evaluated
\* in order; the first exception ends the comprehension.
boundary_value_list(self, prod_bdy_coords) ==
    LET r == [k \in 1..Len(prod_bdy_coords) |->
                call_u_bdy(self.boundary_values, prod_bdy_coords[k])]
    IN  IF \E k \in 1..Len(r) : r[k].exc # ""
          THEN [exc |-> r[CHOOSE k \in 1..Len(r) : r[k].exc # ""].exc, val |-> <<>>]
          ELSE [exc |-> "", val |-> [k \in 1..Len(r) |-> r[k].val]]

\* ------------------------------------------------------------- the heap
\* Mutant of ndarray_setrow: row and column elimination, the column ij of
\* the other rows is zeroed too.
ndarray_setrow_elim(arr, ij, row) ==
    [i \in 1..Len(arr) |->
       IF i = ij THEN row ELSE [j \in 1..Len(arr[i]) |-> IF j = ij THEN 0 ELSE arr[i][j]]]

\* `A[ij] = e[ij]` on an ndarray: row ij of the array is overwritten.
ndarray_setrow(arr, ij, row) == [arr EXCEPT ![ij] = row]

\* Mutant of vec_setitem: the value is accumulated, b[ij] += x.
vec_setitem_add(arr, ij, x) == [arr EXCEPT ![ij] = @ + x]

\* `b[ij] = bvs[k]` on the right-hand side vector.
vec_setitem(arr, ij, x) == [arr EXCEPT ![ij] = x]

\* `A[ij] = e[ij]` on a lil matrix: every column of row ij is set from the
\* entries of e's row, through lil_insert.
lil_setrow(rows, ij, erow) ==
    [rows EXCEPT ![ij] = lil_set_cols(rows[ij], row_toarray(erow, Len(rows)), 1)]

\* A.tolil(): a lil matrix returns itself, another format a new object.
tolil(h, A) ==
    IF h[A].fmt = "lil" THEN [heap |-> h, id |-> A]
    ELSE [heap |-> Append(h, csr_tolil(h[A])), id |-> Len(h) + 1]

\* A.tocsr(): always a new object here (A is the lil of sparse_apply).
tocsr(h, A) == [heap |-> Append(h, lil_tocsr(h[A])), id |-> Len(h) + 1]

\* The for loop of dense_apply from position k on.  Indexing row ij of an
\* N-row array raises IndexError when ij is not a row; the rows edited
\* before stay edited.
RECURSIVE dense_loop(_, _, _, _, _, _)
dense_loop(h, A, b, prod_bdy_dofs, bvs, k) ==
    IF k > Len(prod_bdy_dofs) THEN [exc |-> "", heap |-> h]
    ELSE LET ij == prod_bdy_dofs[k]
             e  == np_eye(h[A].n)
         IN  IF ij > h[A].n THEN [exc |-> "IndexError", heap |-> h]
             ELSE dense_loop([h EXCEPT ![A].arr = ndarray_setrow(@, ij, e[ij]),
                                       ![b].arr = vec_setitem(@, ij, bvs[k])],
                             A, b, prod_bdy_dofs, bvs, k + 1)

\* Mutant of dense_apply: the boundary value is evaluated inside the loop,
\* so the rows before the pair where it raises are already edited.
dense_apply_lazy(self, h, A, b) ==
    LET prod_bdy_dofs   == get_product_boundary_dofs(self)
        prod_bdy_coords == get_product_boundary_coords(self)
        rs  == [k \in 1..Len(prod_bdy_coords.val) |->
                  call_u_bdy(self.boundary_values, prod_bdy_coords.val[k])]
        bad == {k \in 1..Len(rs) : rs[k].exc # ""}
        kf  == IF bad = {} THEN Len(rs) + 1
               ELSE CHOOSE k \in bad : \A k2 \in bad : k <= k2
        r   == dense_loop(h, A, b, SubSeq(prod_bdy_dofs.val, 1, kf - 1),
                          [k \in 1..(kf - 1) |-> rs[k].val], 1)
    IN  IF prod_bdy_dofs.exc # ""
          THEN [exc |-> prod_bdy_dofs.exc, heap |-> h, A |-> 0, b |-> 0]
        ELSE IF r.exc # "" THEN [exc |-> r.exc, heap |-> r.heap, A |-> 0, b |-> 0]
        ELSE IF bad # {} THEN [exc |-> "UserError", heap |-> r.heap, A |-> 0, b |-> 0]
        ELSE [exc |-> "", heap |-> r.heap, A |-> A, b |-> b]

\* The result of a call is [exc, heap, A, b]: the exception raised ("" for
\* none), the heap afterwards, and the returned pair of object ids (0, 0
\* when the call returns None or raises).
dense_apply(self, h, A, b) ==
    LET prod_bdy_dofs   == get_product_boundary_dofs(self)
        prod_bdy_coords == get_product_boundary_coords(self)
        bvs             == boundary_value_list(self, prod_bdy_coords.val)
    IN  IF prod_bdy_dofs.exc # ""
          THEN [exc |-> prod_bdy_dofs.exc, heap |-> h, A |-> 0, b |-> 0]
        ELSE IF bvs.exc # ""
          THEN [exc |-> bvs.exc, heap |-> h, A |-> 0, b |-> 0]
        ELSE LET r == dense_loop(h, A, b, prod_bdy_dofs.val, bvs.val, 1)
             IN  IF r.exc # "" THEN [exc |-> r.exc, heap |-> r.heap, A |-> 0, b |-> 0]
                 ELSE [exc |-> "", heap |-> r.heap, A |-> A, b |-> b]

RECURSIVE sparse_loop(_, _, _, _, _, _)
sparse_loop(h, A, b, prod_bdy_dofs, bvs, k) ==
    IF k > Len(prod_bdy_dofs) THEN [exc |-> "", heap |-> h]
    ELSE LET ij == prod_bdy_dofs[k]
             e  == sps_eye_lil(h[A].n)
         IN  IF ij > h[A].n THEN [exc |-> "IndexError", heap |-> h]
             ELSE sparse_loop([h EXCEPT ![A].rows = lil_setrow(@, ij, e.rows[ij]),
                                        ![b].arr = vec_setitem(@, ij, bvs[k])],
                              A, b, prod_bdy_dofs, bvs, k + 1)

sparse_apply(self, h, A, b) ==
    LET lil             == tolil(h, A)
        prod_bdy_dofs   == get_product_boundary_dofs(self)
        prod_bdy_coords == get_product_boundary_coords(self)
        bvs             == boundary_value_list(self, prod_bdy_coords.val)
    IN  IF prod_bdy_dofs.exc # ""
          THEN [exc |-> prod_bdy_dofs.exc, heap |-> lil.heap, A |-> 0, b |-> 0]
        ELSE IF bvs.exc # ""
          THEN [exc |-> bvs.exc, heap |-> lil.heap, A |-> 0, b |-> 0]
        ELSE LET r == sparse_loop(lil.heap, lil.id, b, prod_bdy_dofs.val, bvs.val, 1)
             IN  IF r.exc # "" THEN [exc |-> r.exc, heap |-> r.heap, A |-> 0, b |-> 0]
                 ELSE LET csr == tocsr(r.heap, lil.id)
                      IN  [exc |-> "", heap |-> csr.heap, A |-> csr.id, b |-> b]

\* petsc_apply has a docstring and no statements: it returns None.
petsc_apply(self, h, A, b) == [exc |-> "", heap |-> h, A |-> 0, b |-> 0]

\* apply: the if/elif chain has no else, an unmatched A falls off the end
\* and the call returns None.
apply(self, h, A, b) ==
    IF issparse(h[A]) THEN sparse_apply(self, h, A, b)
    ELSE IF is_ndarray(h[A]) THEN dense_apply(self, h, A, b)
    ELSE IF is_petsc(h[A]) THEN petsc_apply(self, h, A, b)
    ELSE [exc |-> "", heap |-> h, A |-> 0, b |-> 0]

\* ----------------------------------------------------------------- Solver
\* Solver.solve: the local u is bound by one of three branches; with none
\* taken, `to_Function(u, self.W)` reads it unbound.  The numerical solve is
\* the library's: `lib` is its outcome, "" or the exception it raises.
solve(h, A, b, lib) ==
    IF is_ndarray(h[A]) THEN [path |-> "dense_solve", exc |-> lib]
    ELSE IF issparse(h[A]) THEN [path |-> "sparse_solve", exc |-> lib]
    ELSE IF is_petsc(h[A]) THEN [path |-> "petsc_solve", exc |-> lib]
    ELSE [path |-> "", exc |-> "UnboundLocalError"]

\* ------------------------------------------------------------------ state
VARIABLES
    bc,        \* the ProductDirichletBC: function space (with the dof table),
               \* boundary_values, on_boundary
    heap,      \* the Python objects; an object's id is its index
    first,     \* the first apply on the caller's system
    second,    \* apply on what the first apply returned
    twinCall,  \* apply on the dense copy of the same logical system
    solved,    \* Solver.solve on the caller's system
    q,         \* a query (W, x, y) to the default predicate
    ans        \* its answer

vars == <<bc, heap, first, second, twinCall, solved, q, ans>>

\* The caller's system (A in the chosen representation, b) and a dense copy
\* of the same logical system with its own right-hand side.
Primary == [A |-> 1, b |-> 2]
Twin    == [A |-> 3, b |-> 4]

Formats == {"ndarray", "csr", "lil", "petsc", "object"}

\* An assembled matrix in representation fmt.  "petsc" is the opaque
\* PETSc.Mat handle, "object" anything else (a list of lists, say).
store(fmt, M) ==
    CASE fmt = "csr" -> csr_matrix(M)
      [] fmt = "lil" -> lil_matrix(M)
      [] OTHER       -> [fmt |-> fmt, n |-> Len(M), arr |-> M]

vector(v) == [fmt |-> "vec", n |-> Len(v), arr |-> v]

\* Assembled systems of dimension n: all entries distinct and nonzero, the
\* identity (every row already a basis row), a stiffness-like tridiagonal
\* matrix, and the zero matrix (a csr with nothing stored).
Matrices(n) ==
    { [i \in 1..n |-> [j \in 1..n |-> 10 * i + j]],
      np_eye(n),
      [i \in 1..n |-> [j \in 1..n |-> IF i = j THEN 2
                                      ELSE IF i - j \in {-1, 1} THEN -1 ELSE 0]],
      [i \in 1..n |-> [j \in 1..n |-> 0]] }

Rhs(n) == [i \in 1..n |-> 5 + i]

\* Coordinate pairs of a product space over the interval mesh with dofs at
\* 0, 10, 20, in the order the discretization numbers them.
MarginalCoords == <<0, 10, 20>>
ProductCoords ==
    << <<10, 10>>, <<0, 10>>, <<10, 20>>, <<0, 0>>, <<20, 10>>,
       <<10, 0>>, <<20, 20>>, <<0, 20>>, <<20, 0>> >>

\* The function space: geometric dimension, the base space's dof
\* coordinates, the base space's boundary dofs (DirichletBC(...,
\* 'on_boundary').get_boundary_values().keys()), and the dof table of the
\* product space (tabulate_dof_coordinates()).
FunctionSpace(T, marginal_bdy_dofs) ==
    [geo_dim |-> 1, marginal_dof_coords |-> MarginalCoords,
     marginal_bdy_dofs |-> marginal_bdy_dofs,
     dof_coords |-> SubSeq(ProductCoords, 1, T)]

\* The base space's boundary dofs: the two end points, or none (a space
\* with no dofs on facets, such as piecewise constants).
MarginalBoundaries == {<<1, 3>>, <<>>}

\* The on_product_boundary arguments: 'default', or a callable given by the
\* set of table pairs where it answers True.
BoundaryArguments(T) ==
    {[name |-> "default", truth |-> {}]}
    \cup {[name |-> "", truth |-> S] : S \in SUBSET Range(SubSeq(ProductCoords, 1, T))}

\* The u_bdy arguments: a number, a function of the pair, or a function that
\* raises at one table pair.
ValueArguments(T) ==
    {[kind |-> "number", c |-> 9, at |-> <<>>], [kind |-> "fn", c |-> 0, at |-> <<>>]}
    \cup {[kind |-> "raises", c |-> 0, at |-> p] : p \in Range(SubSeq(ProductCoords, 1, T))}

\* What the caller observes of one apply call: the arguments and their
\* entries before, the outcome, the returned objects and their entries, and
\* the entries of the objects passed in as they are after the call.
NoCall ==
    [done |-> FALSE, fmt |-> "", argA |-> 0, argb |-> 0, preA |-> <<>>, preb |-> <<>>,
     exc |-> "", retA |-> 0, retb |-> 0, postA |-> <<>>, postb |-> <<>>,
     nowA |-> <<>>, nowb |-> <<>>]

Observe(h, A, b, r) ==
    [done |-> TRUE, fmt |-> h[A].fmt, argA |-> A, argb |-> b,
     preA |-> toarray(h[A]), preb |-> h[b].arr,
     exc |-> r.exc, retA |-> r.A, retb |-> r.b,
     postA |-> IF r.A = 0 THEN <<>> ELSE toarray(r.heap[r.A]),
     postb |-> IF r.b = 0 THEN <<>> ELSE r.heap[r.b].arr,
     nowA |-> toarray(r.heap[A]), nowb |-> r.heap[b].arr]

NoSolve == [done |-> FALSE, fmt |-> "", path |-> "", exc |-> "", argA |-> 0,
            preA |-> <<>>, preb |-> <<>>, nowA |-> <<>>, nowb |-> <<>>]

NoQuery == [W |-> FunctionSpace(0, <<>>), x |-> 0, y |-> 0]

InitSystem ==
    \E n \in 1..MaxN, T \in 1..MaxT, fmt \in Formats :
      \E M \in Matrices(n), u_bdy \in ValueArguments(T),
         on_product_boundary \in BoundaryArguments(T),
         bdy \in MarginalBoundaries :
        /\ on_product_boundary.name = "" => bdy = <<1, 3>>
        /\ bc = ProductDirichletBC(FunctionSpace(T, bdy), u_bdy, on_product_boundary)
        /\ heap = <<store(fmt, M), vector(Rhs(n)), store("ndarray", M), vector(Rhs(n))>>

Init ==
    /\ InitSystem
    /\ first = NoCall /\ second = NoCall /\ twinCall = NoCall /\ solved = NoSolve
    /\ q = NoQuery /\ ans = "idle"

\* bc.apply(A, b) on the caller's system.
ApplyFirst ==
    /\ ~first.done
    /\ LET r == apply(bc, heap, Primary.A, Primary.b)
       IN  /\ first' = Observe(heap, Primary.A, Primary.b, r)
           /\ heap' = r.heap
    /\ UNCHANGED <<bc, second, twinCall, solved, q, ans>>

\* A, b = bc.apply(A, b) once more, on the pair the first call returned.
ApplySecond ==
    /\ first.done /\ first.exc = "" /\ first.retA # 0
    /\ ~second.done
    /\ LET r == apply(bc, heap, first.retA, first.retb)
       IN  /\ second' = Observe(heap, first.retA, first.retb, r)
           /\ heap' = r.heap
    /\ UNCHANGED <<bc, first, twinCall, solved, q, ans>>

\* bc.apply on the dense copy.
ApplyTwin ==
    /\ ~twinCall.done
    /\ LET r == apply(bc, heap, Twin.A, Twin.b)
       IN  /\ twinCall' = Observe(heap, Twin.A, Twin.b, r)
           /\ heap' = r.heap
    /\ UNCHANGED <<bc, first, second, solved, q, ans>>

\* The system the caller holds now: what the last apply returned, or the
\* assembled one.
Current ==
    IF second.done /\ second.retA # 0 THEN [A |-> second.retA, b |-> second.retb]
    ELSE IF first.done /\ first.retA # 0 THEN [A |-> first.retA, b |-> first.retb]
    ELSE Primary

\* Solver(W).solve(A, b); the library either returns or raises.
Solve ==
    /\ ~solved.done
    /\ \E lib \in {"", "LinAlgError"} :
         LET r == solve(heap, Current.A, Current.b, lib)
         IN  solved' = [done |-> TRUE, fmt |-> heap[Current.A].fmt, path |-> r.path,
                        exc |-> r.exc, argA |-> Current.A,
                        preA |-> toarray(heap[Current.A]), preb |-> heap[Current.b].arr,
                        nowA |-> toarray(heap[Current.A]), nowb |-> heap[Current.b].arr]
    /\ UNCHANGED <<bc, heap, first, second, twinCall, q, ans>>

Next == ApplyFirst \/ ApplySecond \/ ApplyTwin \/ Solve

Spec == Init /\ [][Next]_vars

\* ------------------------------------------- the default predicate alone
\* Points of a base domain of geometric dimension d.
Points(d) ==
    IF d = 2 THEN {<<a, c>> : a \in 0..MaxCoord, c \in {0, 2}} ELSE 0..MaxCoord

\* The boundary dofs of the base space, in the order the dict yields them.
BoundaryDofs ==
    UNION {{s \in [1..m -> 1..MaxBdy] : \A i, j \in 1..m : i # j => s[i] # s[j]}
             : m \in 0..MaxBdy}

\* The queries in geometric dimension d (3 stands for every unsupported one).
Queries(d) ==
    {[W |-> [geo_dim |-> d, marginal_dof_coords |-> cs,
             marginal_bdy_dofs |-> ds, dof_coords |-> <<>>],
      x |-> x, y |-> y]
       : cs \in [1..MaxBdy -> Points(d)], ds \in BoundaryDofs,
         x \in Points(d), y \in Points(d)}

InitPredicate ==
    /\ bc = ProductDirichletBC(FunctionSpace(0, <<>>),
                               [kind |-> "number", c |-> 0, at |-> <<>>],
                               [name |-> "default", truth |-> {}])
    /\ heap = <<>>
    /\ first = NoCall /\ second = NoCall /\ twinCall = NoCall /\ solved = NoSolve
    /\ \E d \in {1, 2, 3} : q \in Queries(d)
    /\ ans = "pending"

\* default_product_boundary(W, x, y)
Evaluate ==
    /\ ans = "pending"
    /\ ans' = default_product_boundary(q.W, q.x, q.y)
    /\ UNCHANGED <<bc, heap, first, second, twinCall, solved, q>>

SpecPredicate == InitPredicate /\ [][Evaluate]_vars

\* ----------------------------------------------------------------- claims
\* What the claims speak of, read off the state.
Table      == bc.product_function_space.dof_coords
Dofs       == get_product_boundary_dofs(bc)
Calls      == {c \in {first, second, twinCall} : c.done}
Returned(c) == c.exc = "" /\ c.retA # 0
\* Stored densely or as a scipy sparse matrix (csr, the compressed format, or
\* lil).
Stored     == {"ndarray", "csr", "lil"}
BasisRow(i, n) == [j \in 1..n |-> IF j = i THEN 1 ELSE 0]
\* The prescribed value at table index i.
ValueAt(i) == call_u_bdy(bc.boundary_values, Table[i])
DistinctMatrix(A) == Len(A) >= 1 /\ A[1][1] = 11

\* C1: after apply returns on a square dense or sparse system whose
\* dimension is the table's length, every row i of the returned A with i in
\* get_product_boundary_dofs() is the basis row at i, and the returned b[i]
\* is the boundary value function at the coordinate pair of dof i.
C1_BoundaryRows ==
    \A c \in Calls :
      (c.fmt \in Stored /\ Returned(c) /\ Len(c.preA) = Len(Table) /\ Dofs.exc = "")
        => \A k \in 1..Len(Dofs.val) :
             LET i == Dofs.val[k]
             IN  /\ c.postA[i] = BasisRow(i, Len(c.preA))
                 /\ c.postb[i] = ValueAt(i).val

\* C1 witness: a sparse-compressed 3 x 3 system with all entries nonzero,
\* two boundary dofs that are not the first two of the table, values given
\* by a function of the pair, and apply has returned.
C1_Witness ==
    /\ first.done /\ first.fmt = "csr" /\ Returned(first)
    /\ DistinctMatrix(first.preA) /\ Len(first.preA) = 3 /\ Len(Table) = 3
    /\ Dofs.val = <<2, 3>>
    /\ bc.boundary_values.kind = "fn"
    /\ first.postb = <<6, 110, 220>>

\* C2: apply leaves every row j of A and entry b[j] with j not a boundary
\* dof as it was, in the returned system and in the objects passed in; with
\* no boundary dof at all, apply returns and A and b equal the inputs.
C2_Frame ==
    \A c \in Calls :
      (c.fmt \in Stored /\ Dofs.exc = "")
        => /\ \A j \in 1..Len(c.preA) :
                j \notin Range(Dofs.val)
                  => /\ c.nowA[j] = c.preA[j] /\ c.nowb[j] = c.preb[j]
                     /\ Returned(c) => c.postA[j] = c.preA[j] /\ c.postb[j] = c.preb[j]
           /\ Dofs.val = <<>>
                => Returned(c) /\ c.postA = c.preA /\ c.postb = c.preb

\* C2 witness: a dense 3 x 3 system with nonzero entries everywhere, where
\* row 2 is a boundary row and rows 1 and 3 are not, after apply returned.
C2_Witness ==
    /\ twinCall.done /\ Returned(twinCall)
    /\ DistinctMatrix(twinCall.preA) /\ Len(twinCall.preA) = 3
    /\ Dofs.val = <<2>>
    /\ twinCall.postA[2] = <<0, 1, 0>> /\ twinCall.postA[1] = <<11, 12, 13>>

\* C3: with A none of the three recognized representations, apply and solve
\* both end in an error, and A and b are unchanged.
C3_Unsupported ==
    /\ \A c \in Calls :
         c.fmt = "object" => c.exc # "" /\ c.nowA = c.preA /\ c.nowb = c.preb
    /\ (solved.done /\ solved.fmt = "object")
         => solved.exc # "" /\ solved.nowA = solved.preA /\ solved.nowb = solved.preb

\* C4: when the dimension of A differs from the table's length, apply on a
\* dense or sparse-compressed A fails and returns no system.
C4_DimensionMismatch ==
    \A c \in Calls :
      (c.fmt \in {"ndarray", "csr"} /\ Len(c.preA) # Len(Table))
        => c.exc # "" /\ c.retA = 0

\* The system a call leaves the caller with has its boundary rows replaced
\* and its right-hand side set, in view A, b.
Replaced(A, b) ==
    /\ Len(A) >= Len(Table) /\ Len(b) = Len(A)
    /\ \A k \in 1..Len(Dofs.val) :
         LET i == Dofs.val[k]
         IN  A[i] = BasisRow(i, Len(A)) /\ b[i] = ValueAt(i).val

\* C5: on a PETSc matrix handle apply either fails or leaves a system whose
\* boundary rows are basis rows and whose b holds the boundary values; it
\* never returns normally with the boundary rows unreplaced.
C5_PetscNoSilentNoop ==
    \A c \in Calls :
      (c.fmt = "petsc" /\ Dofs.exc = "" /\ \A k \in 1..Len(Dofs.val) : ValueAt(Dofs.val[k]).exc = "")
        => \/ c.exc # ""
           \/ Replaced(c.nowA, c.nowb)
           \/ (c.retA # 0 /\ Replaced(c.postA, c.postb))

\* C6: when the boundary value function raises at some boundary pair, apply
\* on a dense or sparse system does not return: the function's exception
\* reaches the caller, and no row of A and no entry of b has been modified.
C6_ValueFunctionRaises ==
    \A c \in Calls :
      (c.fmt \in Stored /\ Dofs.exc = ""
         /\ \E k \in 1..Len(Dofs.val) : ValueAt(Dofs.val[k]).exc # "")
        => /\ c.exc = "UserError" /\ c.retA = 0 /\ c.retb = 0
           /\ c.nowA = c.preA /\ c.nowb = c.preb

\* C6 witness: a dense system with two boundary dofs where the value function
\* evaluates at the first and raises at the second, after the call.
C6_Witness ==
    /\ twinCall.done /\ twinCall.exc = "UserError"
    /\ DistinctMatrix(twinCall.preA) /\ Len(twinCall.preA) = 3
    /\ Dofs.val = <<1, 3>>
    /\ ValueAt(1).exc = "" /\ ValueAt(3).exc # ""

\* C8: the same logical system stored dense and sparse-compressed, under the
\* same boundary condition, gives returned matrices equal entry for entry
\* and returned right-hand sides equal entry for entry.
C8_DenseSparseAgree ==
    (first.done /\ twinCall.done /\ first.fmt = "csr" /\ twinCall.fmt = "ndarray"
       /\ Returned(first) /\ Returned(twinCall))
      => first.postA = twinCall.postA /\ first.postb = twinCall.postb

\* C8 witness: both copies of a 3 x 3 system with nonzero entries everywhere
\* have been through apply, with boundary dofs 1 and 3.
C8_Witness ==
    /\ first.done /\ twinCall.done /\ first.fmt = "csr"
    /\ Returned(first) /\ Returned(twinCall)
    /\ DistinctMatrix(first.preA) /\ Len(first.preA) = 3
    /\ Dofs.val = <<1, 3>>
    /\ first.postA = << <<1, 0, 0>>, <<21, 22, 23>>, <<0, 0, 1>> >>

\* C9: apply on the result of a first apply returns, and returns a system
\* equal entry for entry to the result of the first apply.
C9_Idempotent ==
    second.done
      => /\ Returned(second)
         /\ second.postA = first.postA /\ second.postb = first.postb

\* C9 witness: a second apply on a dense system whose first apply replaced
\* rows 2 and 3.
C9_Witness ==
    /\ second.done /\ second.fmt = "ndarray" /\ Returned(second)
    /\ DistinctMatrix(first.preA) /\ Len(first.preA) = 3
    /\ Dofs.val = <<2, 3>>
    /\ second.postb = <<6, 110, 220>>

\* C10: with a non-empty boundary-dof set, on the dense and on the
\* sparse-compressed path alike, the objects the caller passed in are
\* either both edited (A and b) or both left with their entries from before
\* the call.
C10_CopyPolicy ==
    \A c \in Calls :
      (c.fmt \in {"ndarray", "csr"} /\ Returned(c) /\ Dofs.val # <<>>
         /\ c.postA # c.preA /\ c.postb # c.preb)
        => ((c.nowA = c.preA) <=> (c.nowb = c.preb))

\* Within tolerance, by dimension: the absolute difference on a line, the
\* Euclidean distance in the plane.
WithinTolerance(d, p, c) ==
    IF d = 1 THEN (IF p >= c THEN p - c ELSE c - p) <= DOLFIN_EPS
    ELSE (p[1] - c[1]) * (p[1] - c[1]) + (p[2] - c[2]) * (p[2] - c[2])
           < NEAR2D_TOL * NEAR2D_TOL

BoundarySet(W) == {W.marginal_dof_coords[W.marginal_bdy_dofs[k]] : k \in 1..Len(W.marginal_bdy_dofs)}

\* C7: in dimension 1 or 2, for every finite set of boundary coordinates and
\* every pair (x, y), the default predicate returns a boolean: true when x
\* or y is within tolerance of a coordinate of the set, false otherwise.
C7_DefaultPredicate ==
    (ans \notin {"idle", "pending"} /\ q.W.geo_dim \in {1, 2})
      => ans = IF \E c \in BoundarySet(q.W) :
                    \/ WithinTolerance(q.W.geo_dim, q.x, c)
                    \/ WithinTolerance(q.W.geo_dim, q.y, c)
                 THEN "True" ELSE "False"

====
